---------------------------- MODULE Spec2Model ----------------------------
(***************************************************************************)
(* A model of main.py of realtime-comm-protocols: the ConnectionManager    *)
(* registry with the /simulate and /connections endpoints, the one-entry   *)
(* system-metrics cache, the WeatherMonitor refresh cycle, and the three    *)
(* transport handlers: long_poll, the SSE event_generator and               *)
(* websocket_endpoint.                                                     *)
(*                                                                         *)
(* Temperatures are integers in tenths of a degree Celsius, so the 0.5     *)
(* degree threshold of the source is 5.  Wall-clock time is an integer     *)
(* number of ticks, TicksPerSecond of them to the second.                  *)
(***************************************************************************)
EXTENDS Integers, Sequences, FiniteSets, TLC

VARIABLES
    \* ConnectionManager (main.py:39-67) and the last endpoint response
    active_connections,     \* list of WebSocket handles, in append order
    simulated_connections,  \* integer counter
    response,               \* last {simulated, real, total} body returned
    request,                \* the last registry operation: what was asked of
                            \* it, and the registry as it was before
    \* wall clock and the metrics cache (main.py:324-365)
    clock,                  \* time.time(), in ticks
    last_metrics_time,      \* module global, in ticks
    cached_metrics,         \* module global: None or a snapshot
    samples,                \* number of psutil sampling rounds performed
    metrics_calls,          \* the last two get_system_metrics calls: time, result
    \* WeatherMonitor (main.py:72-209) and its collaborators
    cities,                 \* self.cities, the configured city table
    weather_data,           \* city id -> Observation
    last_updated,           \* start time of the latest refresh
    update_history,         \* list of ChangeEvents
    calls,                  \* the update_weather calls made so far, in order
    api,                    \* what the weather API currently reports per city
    disturbances,           \* API changes and failed requests so far
    \* the transport handlers (main.py:215-321)
    poll_response,          \* long_poll: what each finished request returned
    ws_pc,                  \* websocket_endpoint: where each handler stands
    client_message,         \* websocket_endpoint: its local client_message
    ws_log,                 \* what each WebSocket handler did last
    sse_pc,                 \* event_generator: where each generator stands
    is_disconnected,        \* what request.is_disconnected() would answer
    sse_log                 \* what each generator did last

vars == <<active_connections, simulated_connections, response, request,
          clock, last_metrics_time, cached_metrics, samples,
          metrics_calls,
          cities, weather_data, last_updated, update_history, calls,
          api, disturbances,
          poll_response, ws_pc, client_message, ws_log,
          sse_pc, is_disconnected, sse_log>>

registryVars == <<active_connections, simulated_connections, response, request>>
metricsVars == <<last_metrics_time, cached_metrics, samples, metrics_calls>>

weatherVars == <<cities, weather_data, last_updated, update_history, calls,
                 api, disturbances>>

socketVars == <<ws_pc, client_message, ws_log>>
streamVars == <<sse_pc, is_disconnected, sse_log>>
transportVars == <<poll_response, socketVars, streamVars>>

\* Python's None, and a value v held where None is possible
None == <<>>
Some(v) == <<v>>

Min(a, b) == IF a < b THEN a ELSE b
Abs(x) == IF x < 0 THEN -x ELSE x

---------------------------------------------------------------------------
(* Bounds of the model                                                     *)

NumSessions == 2        \* distinct WebSocket handles
MaxConnections == 3     \* cap on the length of active_connections
MaxCount == 3           \* largest count= parameter of the simulate endpoints
MaxSimulated == 3       \* cap on |simulated_connections|
TicksPerSecond == 2     \* clock resolution
MaxTime == 6            \* SpecMetrics: ticks of the clock
MaxCycles == 2          \* SpecWeather: update_weather calls
MaxInFlight == 2        \* SpecWeather: update_weather calls in flight at once
MaxDisturbances == 1    \* SpecWeather: API changes and failed requests
HistoryCycles == 17     \* SpecHistory: update_weather calls
HistoryTicks == 2       \* SpecHistory: ticks of the clock
FullCycles == 1         \* SpecFull: update_weather calls, one after the other

NumRequests == 1        \* SpecStream: GET /sse requests
StreamTicks == 2        \* SpecStream: ticks of the clock

Sessions == 1..NumSessions
Requests == 1..NumRequests
Counts == (-1)..MaxCount

---------------------------------------------------------------------------
(* ConnectionManager                                                       *)

\* the set of sessions recorded as live
LiveSessions == {active_connections[i] : i \in DOMAIN active_connections}

\* list.remove(x): the list without its first occurrence of x
RECURSIVE RemoveFirst(_, _)
RemoveFirst(s, x) ==
    IF s = <<>> THEN <<>>
    ELSE IF Head(s) = x THEN Tail(s)
    ELSE <<Head(s)>> \o RemoveFirst(Tail(s), x)

get_total_connections == Len(active_connections) + simulated_connections

\* the operation op, asked with arg of the registry as it is
Asked(op, arg) ==
    [op |-> op, arg |-> arg,
     active |-> active_connections, simulated |-> simulated_connections]

\* connect: websocket.accept() either returns, and the handle is appended,
\* or raises, and nothing is recorded
connect(ws) ==
    /\ Len(active_connections) < MaxConnections
    /\ \/ active_connections' = Append(active_connections, ws)
       \/ active_connections' = active_connections
    /\ request' = Asked("connect", ws)
    /\ UNCHANGED <<simulated_connections, response>>
    /\ UNCHANGED <<clock, metricsVars, weatherVars>>

disconnect(ws) ==
    /\ active_connections' =
          IF ws \in LiveSessions
          THEN RemoveFirst(active_connections, ws)
          ELSE active_connections
    /\ request' = Asked("disconnect", ws)
    /\ UNCHANGED <<simulated_connections, response>>
    /\ UNCHANGED <<clock, metricsVars, weatherVars>>

\* add_simulated that takes its default count of 1 whatever it is given
add_simulated_one(count) == simulated_connections + 1

\* the new counter value, which is also the value add_simulated returns
add_simulated(count) == simulated_connections + count

\* remove_simulated without the clamp of main.py:60-61
remove_simulated_unclamped(count) == simulated_connections - count

\* the new counter value, which is also the value remove_simulated returns
remove_simulated(count) ==
    LET c == IF count > simulated_connections
             THEN simulated_connections ELSE count
    IN  simulated_connections - c

\* POST /simulate/add?count=N
add_simulated_connections(count) ==
    LET total == add_simulated(count) IN
    /\ Abs(total) <= MaxSimulated
    /\ request' = Asked("add_simulated", count)
    /\ simulated_connections' = total
    /\ response' = Some([simulated |-> simulated_connections',
                         real |-> Len(active_connections),
                         total |-> total])
    /\ UNCHANGED active_connections
    /\ UNCHANGED <<clock, metricsVars, weatherVars>>

\* POST /simulate/remove?count=N
remove_simulated_connections(count) ==
    LET total == remove_simulated(count) IN
    /\ Abs(total) <= MaxSimulated
    /\ request' = Asked("remove_simulated", count)
    /\ simulated_connections' = total
    /\ response' = Some([simulated |-> simulated_connections',
                         real |-> Len(active_connections),
                         total |-> total])
    /\ UNCHANGED active_connections
    /\ UNCHANGED <<clock, metricsVars, weatherVars>>

\* GET /connections
get_connections ==
    /\ response' = Some([simulated |-> simulated_connections,
                         real |-> Len(active_connections),
                         total |-> get_total_connections])
    /\ request' = Asked("get_connections", 0)
    /\ UNCHANGED <<active_connections, simulated_connections>>
    /\ UNCHANGED <<clock, metricsVars, weatherVars>>

---------------------------------------------------------------------------
(* Wall clock and the system-metrics cache                                 *)

Percents == {10, 90}    \* the utilisation figures psutil may report

\* time passes, up to the bound maxTime
Tick(maxTime) ==
    /\ clock < maxTime
    /\ clock' = clock + 1
    /\ UNCHANGED <<registryVars, metricsVars, weatherVars>>

\* the window of main.py:333, in ticks
CacheWindow == 1 * TicksPerSecond

\* the cache test with <= for <
CacheFresh_inclusive(now) ==
    /\ cached_metrics # None
    /\ now - last_metrics_time <= CacheWindow

\* the cache test of main.py:333 at time now
CacheFresh(now) ==
    /\ cached_metrics # None
    /\ now - last_metrics_time < CacheWindow

\* the last two calls, after a call at time now that returned result with
\* n sampling rounds made so far
Called(now, result, n) ==
    LET call == [time |-> now, result |-> result, samples |-> n]
    IN  IF metrics_calls = <<>> THEN <<call>>
        ELSE <<metrics_calls[Len(metrics_calls)], call>>

\* GET /system-metrics, also called by every iteration of the SSE loop
get_system_metrics ==
    LET current_time == clock IN
    /\ IF CacheFresh(current_time)
       THEN /\ metrics_calls' = Called(current_time, cached_metrics[1], samples)
            /\ UNCHANGED <<cached_metrics, last_metrics_time, samples>>
       ELSE \E cpu \in Percents, mem \in Percents :
              LET snapshot == [timestamp |-> current_time,
                               cpu |-> cpu, memory |-> mem, disk |-> 10]
              IN  /\ cached_metrics' = Some(snapshot)
                  /\ last_metrics_time' = current_time
                  /\ samples' = samples + 1
                  /\ metrics_calls' = Called(current_time, snapshot, samples + 1)
    /\ UNCHANGED <<clock, registryVars, weatherVars>>

---------------------------------------------------------------------------
(* WeatherMonitor                                                          *)

\* the table of main.py:75-81
CityTable ==
    << [id |-> "london",    name |-> "London",    country |-> "GB"],
       [id |-> "new_york",  name |-> "New York",  country |-> "US"],
       [id |-> "tokyo",     name |-> "Tokyo",     country |-> "JP"],
       [id |-> "sydney",    name |-> "Sydney",    country |-> "AU"],
       [id |-> "bengaluru", name |-> "Bengaluru", country |-> "IN"] >>

CityIds == {cities[i].id : i \in DOMAIN cities}
City(c) == CHOOSE city \in {cities[i] : i \in DOMAIN cities} : city.id = c

\* the readings the weather API may report: 0.0, 0.4 and 0.5 degrees, the
\* second with a weather code the table does not know
Readings == {[temperature_2m |-> 0, weather_code |-> 3],
             [temperature_2m |-> 4, weather_code |-> 99],
             [temperature_2m |-> 5, weather_code |-> 0]}
InitialReading == [temperature_2m |-> 5, weather_code |-> 0]

\* the table of main.py:200-208
conditions ==
    (0 :> "Clear sky") @@
    (1 :> "Mainly clear") @@ (2 :> "Partly cloudy") @@ (3 :> "Overcast") @@
    (45 :> "Fog") @@ (48 :> "Fog") @@
    (51 :> "Light drizzle") @@ (53 :> "Drizzle") @@ (55 :> "Drizzle") @@
    (61 :> "Rain") @@ (63 :> "Rain") @@ (65 :> "Heavy rain") @@
    (71 :> "Snow") @@ (73 :> "Snow") @@ (75 :> "Heavy snow") @@
    (80 :> "Rain showers") @@ (95 :> "Thunderstorm")

get_weather_condition(code) ==
    IF code \in DOMAIN conditions THEN conditions[code] ELSE "Unknown"

\* hash(city["id"]): some integer of either sign, fixed for the process
hash(c) ==
    LET i == CHOOSE j \in DOMAIN CityTable : CityTable[j].id = c
    IN  37 * i - 100

HistoryLimit == 15      \* main.py:92
ChangeThreshold == 5    \* main.py:150, 0.5 degrees in tenths

\* the eviction with pop() for pop(0): the newest entry goes
LimitHistory_newest(history) ==
    IF Len(history) > HistoryLimit
    THEN SubSeq(history, 1, Len(history) - 1) ELSE history

\* main.py:92-93
LimitHistory(history) ==
    IF Len(history) > HistoryLimit THEN Tail(history) ELSE history

\* main.py:127-128: the stored temperature, 0 when nothing is stored
old_temp(c) ==
    IF c \in DOMAIN weather_data THEN weather_data[c].temperature ELSE 0

\* main.py:150
Significant(temp_change) == Abs(temp_change) >= ChangeThreshold

\* main.py:151: the entry goes into the last ChangeEvent of the history
RecordChange(history, c, entry) ==
    [history EXCEPT ![Len(history)].changes = (c :> entry) @@ @]

\* the fallback Observation with a temperature change computed as on success
Fallback_with_change(c, label) ==
    [city_name |-> City(c).name,
     country |-> City(c).country,
     temperature |-> 10 * (20 + (hash(c) % 10)),
     humidity |-> 50 + (hash(c) % 30),
     wind_speed |-> 5 + (hash(c) % 10),
     condition |-> label,
     temp_change |-> 10 * (20 + (hash(c) % 10)) - old_temp(c)]

\* main.py:163-171 and 177-185
Fallback(c, label) ==
    [city_name |-> City(c).name,
     country |-> City(c).country,
     temperature |-> 10 * (20 + (hash(c) % 10)),
     humidity |-> 50 + (hash(c) % 30),
     wind_speed |-> 5 + (hash(c) % 10),
     condition |-> label,
     temp_change |-> 0]

\* calls[k].tasks[c] tells where the fetch of city c by call k stands:
\* "pending", or how it ended: "changed" (status 200 and a temperature at
\* least 0.5 degrees from the stored one, or from 0 with none stored),
\* "steady" (status 200 otherwise), "status", "except", or "raised" when an
\* exception left the task
Running == {k \in DOMAIN calls : calls[k].status = "running"}
Pending(k, c) ==
    /\ k \in Running
    /\ calls[k].tasks[c] = "pending"

\* update_weather up to its await: main.py:88-100
update_weather(maxCycles, maxInFlight) ==
    LET now == clock
        k == Len(calls) + 1
    IN  /\ Len(calls) < maxCycles
        /\ Cardinality(Running) < maxInFlight
        /\ last_updated' = now
        /\ update_history' =
              Append(LimitHistory(update_history),
                     [timestamp |-> now, changes |-> <<>>, id |-> k])
        /\ calls' = Append(calls, [status |-> "running",
                                   tasks |-> [c \in CityIds |-> "pending"]])
        /\ UNCHANGED <<cities, weather_data, api, disturbances>>
        /\ UNCHANGED <<clock, registryVars, metricsVars>>

\* _fetch_city_weather, status 200: main.py:122-157
fetch_city_weather_200(k, c) ==
    LET current == api[c]
        new_temp == current.temperature_2m
        temp_change == new_temp - old_temp(c)
    IN  /\ Pending(k, c)
        /\ weather_data' =
              (c :> [city_name |-> City(c).name,
                     country |-> City(c).country,
                     temperature |-> new_temp,
                     humidity |-> 50,
                     wind_speed |-> 5,
                     condition |-> get_weather_condition(current.weather_code),
                     temp_change |-> temp_change]) @@ weather_data
        /\ update_history' =
              IF Significant(temp_change)
              THEN RecordChange(update_history, c,
                                [city_name |-> City(c).name,
                                 temp_change |-> temp_change,
                                 new_temp |-> new_temp])
              ELSE update_history
        /\ calls' = [calls EXCEPT ![k].tasks[c] =
                        IF Abs(new_temp - old_temp(c)) >= 5
                        THEN "changed" ELSE "steady"]
        /\ UNCHANGED <<cities, last_updated, api, disturbances>>
        /\ UNCHANGED <<clock, registryVars, metricsVars>>

\* what a failed fetch leaves: the fallback Observation, the task finished
FetchFailed(k, c, label, state) ==
    /\ weather_data' = (c :> Fallback(c, label)) @@ weather_data
    /\ calls' = [calls EXCEPT ![k].tasks[c] = state]
    /\ UNCHANGED update_history

\* _fetch_city_weather, any other status: main.py:158-171
fetch_city_weather_status(k, c, maxDisturbances) ==
    /\ Pending(k, c)
    /\ disturbances < maxDisturbances
    /\ disturbances' = disturbances + 1
    /\ FetchFailed(k, c, "API Error - Using Fallback Data", "status")
    /\ UNCHANGED <<cities, last_updated, api>>
    /\ UNCHANGED <<clock, registryVars, metricsVars>>

\* the same without the try/except of main.py:106 and 173: the exception
\* leaves the task and nothing is stored
fetch_city_weather_uncaught(k, c, maxDisturbances) ==
    /\ Pending(k, c)
    /\ disturbances < maxDisturbances
    /\ disturbances' = disturbances + 1
    /\ calls' = [calls EXCEPT ![k].tasks[c] = "raised"]
    /\ UNCHANGED <<cities, weather_data, update_history, last_updated, api>>
    /\ UNCHANGED <<clock, registryVars, metricsVars>>

\* _fetch_city_weather, the request or the decoding of its answer raises
\* (a timeout among them): main.py:173-185
fetch_city_weather_except(k, c, maxDisturbances) ==
    /\ Pending(k, c)
    /\ disturbances < maxDisturbances
    /\ disturbances' = disturbances + 1
    /\ FetchFailed(k, c, "Error - Using Fallback Data", "except")
    /\ UNCHANGED <<cities, last_updated, api>>
    /\ UNCHANGED <<clock, registryVars, metricsVars>>

\* asyncio.gather of main.py:100 ends: with the first task that raised, or
\* when every task has returned; then update_weather returns (main.py:102)
update_weather_return(k) ==
    LET states == {calls[k].tasks[c] : c \in CityIds} IN
    /\ k \in Running
    /\ "raised" \in states \/ "pending" \notin states
    /\ calls' = [calls EXCEPT ![k].status =
                    IF "raised" \in states THEN "raised" ELSE "returned"]
    /\ UNCHANGED <<cities, weather_data, last_updated, update_history,
                   api, disturbances>>
    /\ UNCHANGED <<clock, registryVars, metricsVars>>

\* the weather changes: the API reports another reading for a city
api_changes(c, reading, maxDisturbances) ==
    /\ disturbances < maxDisturbances
    /\ reading # api[c]
    /\ api' = [api EXCEPT ![c] = reading]
    /\ disturbances' = disturbances + 1
    /\ UNCHANGED <<cities, weather_data, last_updated, update_history,
                   calls>>
    /\ UNCHANGED <<clock, registryVars, metricsVars>>

---------------------------------------------------------------------------
(* GET /poll                                                               *)

\* long_poll up to the await inside update_weather: main.py:216-218, 88-100
long_poll(maxCycles, maxInFlight) ==
    /\ update_weather(maxCycles, maxInFlight)
    /\ UNCHANGED transportVars

\* what long_poll renders once update_weather has returned: main.py:221-253,
\* without the timestamp, the message text, the history and the colour
weather_summary ==
    IF weather_data = <<>>
    THEN [error |-> "No weather data available"]
    ELSE [count |-> get_total_connections,
          weather_data |-> weather_data,
          labels |-> [i \in DOMAIN cities |-> cities[i].name],
          values |-> [i \in DOMAIN cities |-> old_temp(cities[i].id)]]

\* long_poll with the gather of main.py:100 not awaited: update_weather
\* returns at once and the response is rendered from what is stored then
long_poll_return_unawaited(k) ==
    /\ k \in Running
    /\ calls' = [calls EXCEPT ![k].status = "returned"]
    /\ poll_response' = (k :> weather_summary) @@ poll_response
    /\ UNCHANGED <<cities, weather_data, last_updated, update_history,
                   api, disturbances>>
    /\ UNCHANGED <<clock, registryVars, metricsVars, socketVars, streamVars>>

\* update_weather returns to long_poll, which renders its response without
\* another await; an exception out of update_weather ends the request with
\* the framework's error response: main.py:218-253
long_poll_return(k) ==
    /\ update_weather_return(k)
    /\ poll_response' =
          (k :> IF calls'[k].status = "raised"
                THEN [error |-> "Internal Server Error"]
                ELSE weather_summary) @@ poll_response
    /\ UNCHANGED <<socketVars, streamVars>>

---------------------------------------------------------------------------
(* WebSocket /ws                                                           *)

\* ws_pc[ws] is "new" before the handler runs, then the await the handler
\* stands at: "send" (main.py:301), "receive" (305), "respond" (312) or
\* "sleep" (315), and "closed" once the handler has ended.  ws_log[ws] holds
\* the last two steps of the handler, each with its type and argument.
Messages == {"ping", "pong"}

Step(type, arg) == [type |-> type, arg |-> arg]

\* the log after another step: the step before it and the step itself
Remember(log, step) ==
    IF log = <<>> THEN <<step>> ELSE <<log[Len(log)], step>>

\* manager.connect of main.py:292: accept() returns and the handler enters
\* its loop, or accept() raises outside the try and the handler ends
websocket_accept(ws) ==
    /\ ws_pc[ws] = "new"
    /\ connect(ws)
    /\ ws_pc' = [ws_pc EXCEPT ![ws] =
                    IF active_connections' = active_connections
                    THEN "closed" ELSE "send"]
    /\ UNCHANGED <<client_message, ws_log, poll_response, streamVars>>

\* the frame of main.py:296-301 is sent; the log keeps that it was, not
\* the timestamp and the count in it
send_json_data(ws) ==
    /\ ws_pc[ws] = "send"
    /\ ws_log' = [ws_log EXCEPT ![ws] = Remember(@, Step("data", ""))]
    /\ ws_pc' = [ws_pc EXCEPT ![ws] = "receive"]
    /\ UNCHANGED <<client_message, poll_response, streamVars>>
    /\ UNCHANGED <<clock, registryVars, metricsVars, weatherVars>>

\* receive_text returns m within the three seconds: main.py:305
receive_text(ws, m) ==
    /\ ws_pc[ws] = "receive"
    /\ client_message' = [client_message EXCEPT ![ws] = Some(m)]
    /\ ws_log' = [ws_log EXCEPT ![ws] = Remember(@, Step("received", m))]
    /\ ws_pc' = [ws_pc EXCEPT ![ws] = "respond"]
    /\ UNCHANGED <<poll_response, streamVars>>
    /\ UNCHANGED <<clock, registryVars, metricsVars, weatherVars>>

\* the acknowledgment is sent and the handler stays in the inner try to
\* receive again, without a frame of its own first
send_json_response_receives(ws) ==
    /\ ws_pc[ws] = "respond"
    /\ ws_log' = [ws_log EXCEPT ![ws] =
                     Remember(@, Step("response", client_message[ws][1]))]
    /\ ws_pc' = [ws_pc EXCEPT ![ws] = "receive"]
    /\ UNCHANGED <<client_message, poll_response, streamVars>>
    /\ UNCHANGED <<clock, registryVars, metricsVars, weatherVars>>

\* the acknowledgment of main.py:307-312 is sent; the loop starts over
send_json_response(ws) ==
    /\ ws_pc[ws] = "respond"
    /\ ws_log' = [ws_log EXCEPT ![ws] =
                     Remember(@, Step("response", client_message[ws][1]))]
    /\ ws_pc' = [ws_pc EXCEPT ![ws] = "send"]
    /\ UNCHANGED <<client_message, poll_response, streamVars>>
    /\ UNCHANGED <<clock, registryVars, metricsVars, weatherVars>>

\* wait_for raises TimeoutError: main.py:305, 313
receive_timeout(ws) ==
    /\ ws_pc[ws] = "receive"
    /\ ws_log' = [ws_log EXCEPT ![ws] = Remember(@, Step("timeout", ""))]
    /\ ws_pc' = [ws_pc EXCEPT ![ws] = "sleep"]
    /\ UNCHANGED <<client_message, poll_response, streamVars>>
    /\ UNCHANGED <<clock, registryVars, metricsVars, weatherVars>>

\* the sleep of main.py:315 is over; the loop starts over
sleep_returns(ws) ==
    /\ ws_pc[ws] = "sleep"
    /\ ws_log' = [ws_log EXCEPT ![ws] = Remember(@, Step("slept", ""))]
    /\ ws_pc' = [ws_pc EXCEPT ![ws] = "send"]
    /\ UNCHANGED <<client_message, poll_response, streamVars>>
    /\ UNCHANGED <<clock, registryVars, metricsVars, weatherVars>>

\* the pending send or receive raises WebSocketDisconnect or another
\* Exception, which the handler catches: main.py:317-321
websocket_raises(ws) ==
    /\ ws_pc[ws] \in {"send", "receive", "respond"}
    /\ disconnect(ws)
    /\ ws_pc' = [ws_pc EXCEPT ![ws] = "closed"]
    /\ UNCHANGED <<client_message, ws_log, poll_response, streamVars>>

\* the handler's task is cancelled at the await it stands at: CancelledError
\* is a BaseException, which neither except clause of main.py:317-321
\* catches, and the handler ends
websocket_cancelled(ws) ==
    /\ ws_pc[ws] \in {"send", "receive", "respond", "sleep"}
    /\ ws_pc' = [ws_pc EXCEPT ![ws] = "closed"]
    /\ UNCHANGED <<client_message, ws_log, poll_response, streamVars>>
    /\ UNCHANGED <<clock, registryVars, metricsVars, weatherVars>>

---------------------------------------------------------------------------
(* GET /sse                                                                *)

\* sse_pc[r] is "new" before the request arrives, then where event_generator
\* stands: "check" (main.py:260), "sample" (265-267), "sleep" (285), and
\* "done" once it has left its loop.  sse_log[r] holds its last two steps.

\* sse: the request arrives and the response starts to run the generator
sse(r) ==
    /\ sse_pc[r] = "new"
    /\ sse_pc' = [sse_pc EXCEPT ![r] = "check"]
    /\ UNCHANGED <<is_disconnected, sse_log, poll_response, socketVars>>
    /\ UNCHANGED <<clock, registryVars, metricsVars, weatherVars>>

\* the client of a request that has arrived goes away
client_disconnects(r) ==
    /\ sse_pc[r] # "new"
    /\ ~is_disconnected[r]
    /\ is_disconnected' = [is_disconnected EXCEPT ![r] = TRUE]
    /\ UNCHANGED <<sse_pc, sse_log, poll_response, socketVars>>
    /\ UNCHANGED <<clock, registryVars, metricsVars, weatherVars>>

\* the test of main.py:260 that answers False whatever the transport says
event_generator_check_connected(r) ==
    /\ sse_pc[r] = "check"
    /\ sse_pc' = [sse_pc EXCEPT ![r] = "sample"]
    /\ sse_log' = [sse_log EXCEPT ![r] = Remember(@, Step("checked", ""))]
    /\ UNCHANGED <<is_disconnected, poll_response, socketVars>>
    /\ UNCHANGED <<clock, registryVars, metricsVars, weatherVars>>

\* main.py:260-262
event_generator_check(r) ==
    /\ sse_pc[r] = "check"
    /\ IF is_disconnected[r]
       THEN /\ sse_pc' = [sse_pc EXCEPT ![r] = "done"]
            /\ sse_log' = [sse_log EXCEPT ![r] = Remember(@, Step("break", ""))]
       ELSE /\ sse_pc' = [sse_pc EXCEPT ![r] = "sample"]
            /\ sse_log' = [sse_log EXCEPT ![r] =
                              Remember(@, Step("checked", ""))]
    /\ UNCHANGED <<is_disconnected, poll_response, socketVars>>
    /\ UNCHANGED <<clock, registryVars, metricsVars, weatherVars>>

\* main.py:265-283: the metrics are taken and the message is yielded; the
\* log keeps the timestamp of the message
event_generator_yield(r) ==
    /\ sse_pc[r] = "sample"
    /\ get_system_metrics
    /\ sse_pc' = [sse_pc EXCEPT ![r] = "sleep"]
    /\ sse_log' = [sse_log EXCEPT ![r] =
                      Remember(@, Step("message", cached_metrics'[1].timestamp))]
    /\ UNCHANGED <<is_disconnected, poll_response, socketVars>>

\* main.py:285: the two seconds are over
event_generator_sleep(r) ==
    /\ sse_pc[r] = "sleep"
    /\ sse_pc' = [sse_pc EXCEPT ![r] = "check"]
    /\ sse_log' = [sse_log EXCEPT ![r] = Remember(@, Step("slept", ""))]
    /\ UNCHANGED <<is_disconnected, poll_response, socketVars>>
    /\ UNCHANGED <<clock, registryVars, metricsVars, weatherVars>>

\* a step of the generator of request r
event_generator(r) ==
    \/ event_generator_check(r)
    \/ event_generator_yield(r)
    \/ event_generator_sleep(r)

---------------------------------------------------------------------------
(* Specifications                                                          *)

StartTime == CacheWindow

InitRegistry ==
    /\ active_connections = <<>>
    /\ simulated_connections = 0
    /\ response = None
    /\ request = Asked("init", 0)

InitMetrics ==
    /\ clock = StartTime
    /\ last_metrics_time = 0
    /\ cached_metrics = None
    /\ samples = 0
    /\ metrics_calls = <<>>

InitTransport ==
    /\ poll_response = <<>>
    /\ ws_pc = [ws \in Sessions |-> "new"]
    /\ client_message = [ws \in Sessions |-> None]
    /\ ws_log = [ws \in Sessions |-> <<>>]
    /\ sse_pc = [r \in Requests |-> "new"]
    /\ is_disconnected = [r \in Requests |-> FALSE]
    /\ sse_log = [r \in Requests |-> <<>>]

InitWeather(table) ==
    /\ cities = table
    /\ weather_data = <<>>
    /\ last_updated = clock
    /\ update_history = <<>>
    /\ calls = <<>>
    /\ api = [c \in {table[i].id : i \in DOMAIN table} |-> InitialReading]
    /\ disturbances = 0

\* SpecWeather and SpecHistory run the monitor on the first two cities of
\* the table, SpecFull on all five
Init ==
    /\ InitRegistry /\ InitMetrics /\ InitTransport
    /\ InitWeather(SubSeq(CityTable, 1, 2))
InitFull ==
    /\ InitRegistry /\ InitMetrics /\ InitTransport
    /\ InitWeather(CityTable)

NextRegistry ==
    \/ \E ws \in Sessions : connect(ws)
          /\ UNCHANGED transportVars
    \/ \E ws \in Sessions : disconnect(ws)
          /\ UNCHANGED transportVars
    \/ \E count \in Counts : add_simulated_connections(count)
          /\ UNCHANGED transportVars
    \/ \E count \in Counts : remove_simulated_connections(count)
          /\ UNCHANGED transportVars
    \/ get_connections
          /\ UNCHANGED transportVars

NextMetrics ==
    \/ Tick(StartTime + MaxTime)
          /\ UNCHANGED transportVars
    \/ get_system_metrics
          /\ UNCHANGED transportVars

\* overlapping update_weather calls, a changing API, failing requests
NextWeather ==
    \/ update_weather(MaxCycles, MaxInFlight)
          /\ UNCHANGED transportVars
    \/ \E k \in DOMAIN calls, c \in CityIds : fetch_city_weather_200(k, c)
          /\ UNCHANGED transportVars
    \/ \E k \in DOMAIN calls, c \in CityIds :
          fetch_city_weather_status(k, c, MaxDisturbances)
          /\ UNCHANGED transportVars
    \/ \E k \in DOMAIN calls, c \in CityIds :
          fetch_city_weather_except(k, c, MaxDisturbances)
          /\ UNCHANGED transportVars
    \/ \E k \in DOMAIN calls : update_weather_return(k)
          /\ UNCHANGED transportVars
    \/ \E c \in CityIds, reading \in Readings :
          api_changes(c, reading, MaxDisturbances)
          /\ UNCHANGED transportVars

\* many update_weather calls, one after the other, against a steady and
\* healthy API, with time passing
NextHistory ==
    \/ Tick(StartTime + HistoryTicks)
          /\ UNCHANGED transportVars
    \/ update_weather(HistoryCycles, 1)
          /\ UNCHANGED transportVars
    \/ \E k \in DOMAIN calls, c \in CityIds : fetch_city_weather_200(k, c)
          /\ UNCHANGED transportVars
    \/ \E k \in DOMAIN calls : update_weather_return(k)
          /\ UNCHANGED transportVars

\* update_weather calls one after the other on the whole table, any of
\* whose requests may fail
NextFull ==
    \/ update_weather(FullCycles, 1)
          /\ UNCHANGED transportVars
    \/ \E k \in DOMAIN calls, c \in CityIds : fetch_city_weather_200(k, c)
          /\ UNCHANGED transportVars
    \/ \E k \in DOMAIN calls, c \in CityIds :
          fetch_city_weather_status(k, c, FullCycles * Len(cities))
          /\ UNCHANGED transportVars
    \/ \E k \in DOMAIN calls, c \in CityIds :
          fetch_city_weather_except(k, c, FullCycles * Len(cities))
          /\ UNCHANGED transportVars
    \/ \E k \in DOMAIN calls : update_weather_return(k)
          /\ UNCHANGED transportVars

\* overlapping GET /poll requests, any of whose fetches may fail
NextPoll ==
    \/ long_poll(MaxCycles, MaxInFlight)
    \/ \E k \in DOMAIN calls, c \in CityIds : fetch_city_weather_200(k, c)
          /\ UNCHANGED transportVars
    \/ \E k \in DOMAIN calls, c \in CityIds :
          fetch_city_weather_status(k, c, MaxDisturbances)
          /\ UNCHANGED transportVars
    \/ \E k \in DOMAIN calls, c \in CityIds :
          fetch_city_weather_except(k, c, MaxDisturbances)
          /\ UNCHANGED transportVars
    \/ \E k \in DOMAIN calls : long_poll_return(k)

\* WebSocket sessions, each with its own handler
NextSocket ==
    \/ \E ws \in Sessions : websocket_accept(ws)
    \/ \E ws \in Sessions : send_json_data(ws)
    \/ \E ws \in Sessions, m \in Messages : receive_text(ws, m)
    \/ \E ws \in Sessions : send_json_response(ws)
    \/ \E ws \in Sessions : receive_timeout(ws)
    \/ \E ws \in Sessions : sleep_returns(ws)
    \/ \E ws \in Sessions : websocket_raises(ws)
    \/ \E ws \in Sessions : websocket_cancelled(ws)

\* GET /sse requests whose clients may go away, with time passing
NextStream ==
    \/ Tick(StartTime + StreamTicks)
          /\ UNCHANGED transportVars
    \/ \E r \in Requests : sse(r)
    \/ \E r \in Requests : client_disconnects(r)
    \/ \E r \in Requests : event_generator_check(r)
    \/ \E r \in Requests : event_generator_yield(r)
    \/ \E r \in Requests : event_generator_sleep(r)

SpecRegistry == Init /\ [][NextRegistry]_vars
SpecMetrics == Init /\ [][NextMetrics]_vars
SpecWeather == Init /\ [][NextWeather]_vars
SpecHistory == Init /\ [][NextHistory]_vars
SpecFull == InitFull /\ [][NextFull]_vars
SpecPoll == Init /\ [][NextPoll]_vars
SpecSocket == Init /\ [][NextSocket]_vars
SpecStream == Init /\ [][NextStream]_vars

\* the event loop runs every generator that can take a step
SpecStreamFair ==
    SpecStream /\ \A r \in Requests : WF_vars(event_generator(r))

---------------------------------------------------------------------------
(* Claims about the registry, checked under SpecRegistry                   *)

SetOf(list) == {list[i] : i \in DOMAIN list}

\* C5: for a counter c >= 0 and n >= 0, remove_simulated(n) leaves the
\* counter at c - min(n, c), which is 0 when n >= c and never below 0.
C5_RemoveClampsAtZero ==
    (/\ request.op = "remove_simulated"
     /\ request.arg >= 0
     /\ request.simulated >= 0)
    => /\ simulated_connections =
             request.simulated - Min(request.arg, request.simulated)
       /\ request.arg >= request.simulated => simulated_connections = 0
       /\ simulated_connections >= 0

\* a removal of more than the counter held has just been clamped
C5_Witness ==
    /\ request.op = "remove_simulated"
    /\ request.simulated >= 1
    /\ request.arg > request.simulated
    /\ simulated_connections = 0

\* C6: total() is the number of sessions currently connected plus the
\* simulated counter, in every reachable state.
C6_TotalCountsSessions ==
    get_total_connections = Cardinality(LiveSessions) + simulated_connections

\* C7: every {simulated, real, total} response has total = simulated + real.
C7_ResponseTotal ==
    response # None
    => response[1].total = response[1].simulated + response[1].real

\* C8: connect with a session already recorded as live leaves the live
\* sessions and their count unchanged; no session is recorded twice.
C8_ConnectIdempotent ==
    /\ (request.op = "connect" /\ request.arg \in SetOf(request.active))
       => active_connections = request.active
    /\ Len(active_connections) = Cardinality(LiveSessions)

\* C9: after disconnect(session) the session is not among the live ones,
\* and a disconnect of a session that was not live changes nothing.
C9_DisconnectRemoves ==
    request.op = "disconnect"
    => /\ request.arg \notin LiveSessions
       /\ request.arg \notin SetOf(request.active)
          => /\ active_connections = request.active
             /\ simulated_connections = request.simulated

\* C12: add_simulated and remove_simulated leave the live sessions as they
\* were, connect and disconnect leave the simulated counter as it was, and
\* a read of the registry changes neither and reports both as they are; so
\* add_simulated(n) from a counter c, with 3 from 0 among them, leaves c + n
\* for the next read to show, with the real count as before.
C12_FrameEffect ==
    /\ request.op \in {"add_simulated", "remove_simulated"}
       => /\ active_connections = request.active
          /\ response[1].real = Len(request.active)
    /\ request.op \in {"connect", "disconnect"}
       => simulated_connections = request.simulated
    /\ request.op = "add_simulated"
       => simulated_connections = request.simulated + request.arg
    /\ request.op = "get_connections"
       => /\ active_connections = request.active
          /\ simulated_connections = request.simulated
          /\ response[1].simulated = simulated_connections
          /\ response[1].real = Len(active_connections)

\* add_simulated(3) has just been applied to a zero counter while a session
\* was live
C12_Witness ==
    /\ request.op = "add_simulated"
    /\ request.arg = 3
    /\ request.simulated = 0
    /\ request.active # <<>>
    /\ simulated_connections = 3
    /\ Len(active_connections) = Len(request.active)

\* C16: whatever integer counts the simulate endpoints are given, negative
\* ones included, the simulated counter is never negative.
C16_SimulatedNeverNegative == simulated_connections >= 0

---------------------------------------------------------------------------
(* Claims about the metrics cache, checked under SpecMetrics               *)

\* C10 as stated: of two successive get() calls less than one second apart,
\* the second returns the snapshot the first returned, without sampling.
C10_CallsWithinWindowAgree ==
    (/\ Len(metrics_calls) = 2
     /\ metrics_calls[2].time - metrics_calls[1].time < CacheWindow)
    => /\ metrics_calls[2].result = metrics_calls[1].result
       /\ metrics_calls[2].samples = metrics_calls[1].samples

\* C10 as amended: the window runs from the timestamp of the cached
\* snapshot, not from the previous call.  A get() less than one second
\* after that timestamp returns the cached snapshot, samples nothing and
\* leaves the cache alone; a get() one second or more after it samples once
\* and stores and returns a snapshot stamped with the time of the call,
\* which is later than the old timestamp.
C10_WindowFromSnapshot ==
    Len(metrics_calls) = 2 =>
        LET before == metrics_calls[1]
            call == metrics_calls[2]
            age == call.time - before.result.timestamp
        IN  /\ cached_metrics = Some(call.result)
            /\ last_metrics_time = call.result.timestamp
            /\ age < CacheWindow
               => /\ call.result = before.result
                  /\ call.samples = before.samples
            /\ age >= CacheWindow
               => /\ call.result.timestamp = call.time
                  /\ call.result.timestamp > before.result.timestamp
                  /\ call.samples = before.samples + 1

\* a call answered from the cache although the call before it was made
\* when the snapshot was already in the cache, and after a resampling
C10_Witness ==
    /\ Len(metrics_calls) = 2
    /\ samples >= 2
    /\ metrics_calls[2].time > metrics_calls[2].result.timestamp
    /\ metrics_calls[2].result = metrics_calls[1].result

---------------------------------------------------------------------------
(* Claims about the weather monitor                                        *)

\* the ChangeEvents of the history that update_weather call k pushed
EventsOf(k) == {i \in DOMAIN update_history : update_history[i].id = k}

Failed == {"status", "except"}
ErrorLabels == {"API Error - Using Fallback Data", "Error - Using Fallback Data"}

\* C1: the ChangeEvent history never holds more than 15 entries.
\* Checked under SpecHistory.
C1_HistoryAtMost15 == Len(update_history) <= 15

\* the calls whose ChangeEvent the history h holds, oldest first
IdsOf(h) == [i \in DOMAIN h |-> h[i].id]

\* C15: every update_weather call pushes one new ChangeEvent, empty and
\* stamped with the time of the call, at the end of the history; the
\* history is otherwise left in its order, except that its head, and only
\* its head, may be evicted by that push; no step changes the timestamp of
\* an event; and the timestamps never decrease along the history.
\* Checked under SpecHistory.
C15_AppendOrder ==
    /\ [](\A i, j \in DOMAIN update_history :
             i <= j => update_history[i].timestamp <= update_history[j].timestamp)
    /\ [][/\ \A i \in DOMAIN update_history, j \in DOMAIN update_history' :
                 update_history[i].id = update_history'[j].id
                     => update_history[i].timestamp = update_history'[j].timestamp
           /\ IF Len(calls') = Len(calls)
              THEN IdsOf(update_history') = IdsOf(update_history)
              ELSE /\ Len(calls') = Len(calls) + 1
                   /\ update_history'[Len(update_history')] =
                         [timestamp |-> clock, changes |-> <<>>,
                          id |-> Len(calls')]
                   /\ SubSeq(update_history', 1, Len(update_history') - 1)
                         \in {update_history, Tail(update_history)}]_vars

\* the first ChangeEvent has been evicted, the others are still there, and
\* time has passed between the oldest of them and the newest
C15_Witness ==
    /\ Len(calls) = HistoryLimit + 2
    /\ IdsOf(update_history) = [i \in 1..(HistoryLimit + 1) |-> i + 1]
    /\ update_history[1].timestamp < update_history[HistoryLimit + 1].timestamp

\* C2: once a refresh cycle has completed, its ChangeEvent has an entry for
\* a city exactly when the cycle's fetch of that city succeeded with a
\* temperature at least 0.5 degrees from the one stored before.
\* Checked under SpecWeather.
C2_EventHoldsTheCyclesChanges ==
    \A k \in DOMAIN calls :
        calls[k].status = "returned" =>
            \A i \in EventsOf(k), c \in CityIds :
                c \in DOMAIN update_history[i].changes
                    <=> calls[k].tasks[c] = "changed"

\* the fetch of city c by call k ends in this step with status 200
Succeeds(k, c) ==
    /\ calls[k].tasks[c] = "pending"
    /\ calls'[k].tasks[c] \in {"changed", "steady"}

\* C13: also when update_weather calls overlap, the entry of a significant
\* change goes into the ChangeEvent that the call issuing the fetch pushed,
\* and into no other call's ChangeEvent.  Checked under SpecWeather.
C13_EntryInOwnCyclesEvent ==
    [][\A k \in DOMAIN calls, c \in CityIds :
          (Succeeds(k, c) /\ calls'[k].tasks[c] = "changed")
          => /\ \E i \in EventsOf(k) : c \in DOMAIN update_history'[i].changes
             /\ \A i \in DOMAIN update_history :
                   update_history'[i] # update_history[i]
                       => update_history[i].id = k]_vars

\* C14: a successful fetch stores as temp_change the new temperature minus
\* the temperature stored for the city just before, and 0 when nothing was
\* stored for the city.  Checked under SpecWeather.
C14_TempChangeAgainstStored ==
    [][\A k \in DOMAIN calls, c \in CityIds :
          Succeeds(k, c)
          => weather_data'[c].temp_change =
                IF c \in DOMAIN weather_data
                THEN weather_data'[c].temperature - weather_data[c].temperature
                ELSE 0]_vars

\* C3: a fetch that fails stores for its city an Observation with
\* temp_change 0 and an error-fallback condition, and adds no entry to any
\* ChangeEvent.  Checked under SpecWeather.
C3_FailedFetchStoresFallback ==
    [][\A k \in DOMAIN calls, c \in CityIds :
          (calls[k].tasks[c] = "pending" /\ calls'[k].tasks[c] \in Failed)
          => /\ c \in DOMAIN weather_data'
             /\ weather_data'[c].temp_change = 0
             /\ weather_data'[c].condition \in ErrorLabels
             /\ update_history' = update_history]_vars

\* a fetch has failed for a city that had an Observation from a successful
\* fetch before, and the fallback is what is stored now
C3_Witness ==
    \E k \in DOMAIN calls, c \in CityIds :
        /\ k > 1
        /\ calls[k].tasks[c] \in Failed
        /\ calls[1].tasks[c] \in {"changed", "steady"}
        /\ weather_data[c].condition \in ErrorLabels

\* C4: update_weather never raises and never gets stuck, whichever fetches
\* fail: a pending fetch can always finish, a call whose fetches have all
\* finished can return, and once it has returned every configured city has
\* an Observation carrying the name and country of the table.
\* Checked under SpecFull.
C4_RefreshCompletes ==
    \A k \in DOMAIN calls :
        /\ calls[k].status # "raised"
        /\ calls[k].status = "running" =>
              /\ \A c \in CityIds :
                    /\ calls[k].tasks[c] # "raised"
                    /\ calls[k].tasks[c] = "pending"
                          => ENABLED fetch_city_weather_200(k, c)
              /\ (\A c \in CityIds : calls[k].tasks[c] # "pending")
                    => ENABLED update_weather_return(k)
        /\ calls[k].status = "returned" =>
              /\ DOMAIN weather_data = CityIds
              /\ \A c \in CityIds :
                    /\ weather_data[c].city_name = City(c).name
                    /\ weather_data[c].country = City(c).country

\* a call has returned although the fetch of one city failed, and another
\* city's fetch in the same call succeeded
C4_Witness ==
    \E k \in DOMAIN calls, c, d \in CityIds :
        /\ calls[k].status = "returned"
        /\ calls[k].tasks[c] \in Failed
        /\ calls[k].tasks[d] \in {"changed", "steady"}
        /\ DOMAIN weather_data = CityIds

---------------------------------------------------------------------------
(* Claims about the transport handlers                                     *)

\* C11: a WebSocket handler that has ended, for whatever reason, has left
\* its session out of the registry's live sessions.
\* Checked under SpecSocket.
C11_ClosedSessionNotLive ==
    \A ws \in Sessions : ws_pc[ws] = "closed" => ws \notin LiveSessions

\* the step b may come right after the step a in a handler
Follows(a, b) ==
    \/ a.type = "data" /\ b.type \in {"received", "timeout"}
    \/ a.type = "received" /\ b.type = "response" /\ b.arg = a.arg
    \/ a.type = "response" /\ b.type = "data"
    \/ a.type = "timeout" /\ b.type = "slept"
    \/ a.type = "slept" /\ b.type = "data"

\* C18: a handler sends its data frame before it waits for a message, and
\* again before each further wait; an acknowledgment comes right after a
\* message was received, carries that message, and is followed by a data
\* frame, so each message is acknowledged once; after a timeout comes the
\* sleep and then a data frame, with no acknowledgment.
\* Checked under SpecSocket.
C18_HeartbeatThenWait ==
    \A ws \in Sessions :
        LET log == ws_log[ws]
            last == log[Len(log)]
        IN  /\ \A i \in 2..Len(log) : Follows(log[i - 1], log[i])
            /\ Len(log) = 1 => log[1].type = "data"
            /\ ws_pc[ws] = "receive" => (log # <<>> /\ last.type = "data")
            /\ ws_pc[ws] = "respond"
                  => last = Step("received", client_message[ws][1])
            /\ ws_pc[ws] = "sleep" => last.type = "timeout"
            /\ (ws_pc[ws] = "send" /\ log # <<>>)
                  => last.type \in {"response", "slept"}

\* one handler has just acknowledged the message it received, another has
\* timed out and slept and sent its next data frame
C18_Witness ==
    \E ws, other \in Sessions :
        /\ ws_pc[ws] = "send"
        /\ ws_log[ws] = <<Step("received", "pong"), Step("response", "pong")>>
        /\ ws_pc[other] = "receive"
        /\ Len(ws_log[other]) = 2
        /\ ws_log[other][1].type = "slept"
        /\ ws_log[other][2].type = "data"

\* the step b may come right after the step a in a generator
FollowsInStream(a, b) ==
    \/ a.type = "checked" /\ b.type = "message"
    \/ a.type = "message" /\ b.type = "slept"
    \/ a.type = "slept" /\ b.type \in {"checked", "break"}

\* C19: once the client of an SSE request is gone, its generator eventually
\* leaves the loop, and after leaving it does nothing more; a generator
\* leaves the loop only when its client is gone, and until then it can
\* always take its next step; each pass of the loop tests the connection,
\* yields one message and sleeps.  Checked under SpecStreamFair.
C19_StreamEndsOnDisconnect ==
    /\ \A r \in Requests : is_disconnected[r] ~> sse_pc[r] = "done"
    /\ [][\A r \in Requests :
             sse_pc[r] = "done"
                 => sse_pc'[r] = "done" /\ sse_log'[r] = sse_log[r]]_vars
    /\ [](\A r \in Requests :
             LET log == sse_log[r] IN
             /\ sse_pc[r] = "done"
                   => is_disconnected[r] /\ log[Len(log)].type = "break"
             /\ sse_pc[r] \notin {"new", "done"} => ENABLED event_generator(r)
             /\ Len(log) = 1 => log[1].type \in {"checked", "break"}
             /\ Len(log) = 2 => FollowsInStream(log[1], log[2])
             /\ sse_pc[r] = "sample" => log[Len(log)].type = "checked"
             /\ sse_pc[r] = "sleep" => log[Len(log)].type = "message")

\* a generator has left its loop after it yielded messages with two
\* different snapshots and its client went away
C19_Witness ==
    \E r \in Requests :
        /\ sse_pc[r] = "done"
        /\ sse_log[r] = <<Step("slept", ""), Step("break", "")>>
        /\ samples >= 2

\* C17: a /poll request makes one update_weather call, which pushes one
\* ChangeEvent, and is answered only when every fetch of that call has
\* finished; its response is never an error and holds an Observation for
\* every configured city, also when requests overlap.
\* Checked under SpecPoll.
C17_PollRendersAfterRefresh ==
    \A k \in DOMAIN poll_response :
        /\ calls[k].status = "returned"
        /\ \A c \in CityIds : calls[k].tasks[c] # "pending"
        /\ Cardinality(EventsOf(k)) = 1
        /\ "error" \notin DOMAIN poll_response[k]
        /\ DOMAIN poll_response[k].weather_data = CityIds

\* the second of two overlapping requests has been answered, one of its
\* fetches having failed, while the first is still waiting for its fetches
C17_Witness ==
    /\ DOMAIN poll_response = {2}
    /\ calls[1].status = "running"
    /\ \E c \in CityIds : calls[2].tasks[c] \in Failed
    /\ \E c \in CityIds : calls[1].tasks[c] = "pending"

===========================================================================
